---- MODULE Spec2Model ----
(***************************************************************************)
(* A model of the inputset-generator structures: Project and its versions  *)
(* list, Dataset with its weblist loaders, its metadata and its fetch      *)
(* loops.  Each group of operations has a specification of its own over    *)
(* the same variables: SpecConstruct, SpecProject, SpecDataset, SpecMeta   *)
(* and SpecFetch.                                                          *)
(***************************************************************************)
EXTENDS Naturals, Sequences, FiniteSets

VARIABLES
    proj,       \* the Project under construction/use (SpecProject)
    versions,   \* Project.versions: the ordered list of Version objects
    nextId,     \* number of Version instances created so far (instance identity)
    registry,   \* Dataset.registry
    projects,   \* Dataset.projects: the ordered list of Project objects
    meta,       \* Dataset.name/version/description/readme/author/email
    pc,         \* position of the running get_projects_meta/get_project_versions call
    idx,        \* index of the project the running fetch loop is at
    inflight,   \* number of api fetches begun and not yet completed
    fetchLog,   \* the api calls made by the current/last fetch loop, in order
    call,       \* arguments of the current/last fetch loop call
    last        \* the last operation called: its arguments and its outcome

vars == <<proj, versions, nextId, registry, projects, meta, pc, idx, inflight,
          fetchLog, call, last>>

\* Python's None.
None == "None"

\* Python truthiness of the values the model uses (None and "" are falsy).
Truthy(v) == v # None /\ v # ""

\* The set of keyword-argument dicts over attribute names A with values in V:
\* any subset of the names may be supplied, each with any value (None included).
Kwargs(A, V) == UNION {[S -> V] : S \in SUBSET A}

\* getattr(obj, param, None) on an object whose attributes are the function attrs.
GetAttr(attrs, param) == IF param \in DOMAIN attrs THEN attrs[param] ELSE None

\* No operation has been called yet.
NoCall == [op |-> "none"]

-----------------------------------------------------------------------------
(* Project: construction, get_version, _get_or_add_version                 *)

MaxVersions == 2

VersionAttrs == {"version", "downloads"}
VersionVals == {None, "1.0", "2.0"}
VersionKwargs == Kwargs(VersionAttrs, VersionVals)

ProjectAttrs == {"name", "url", "package_name"}
ProjectVals == {None, "foo", "bar"}
ProjectKwargs == Kwargs(ProjectAttrs, ProjectVals)

\* Version(**kwargs): a new instance holding the keyword arguments as attributes.
NewVersion(id, kwargs) == [id |-> id, attrs |-> kwargs]

\* The identity key of a Version: its version string.
VersionIdentity(v) == GetAttr(v.attrs, "version")

\* Project.__init__ raises unless a name or a url keyword was passed.
ProjectInitRaises(kwargs) == ~("name" \in DOMAIN kwargs \/ "url" \in DOMAIN kwargs)

\* Project.__init__: name and url default to None, then every keyword is set.
ProjectInit(kwargs) ==
    [live |-> TRUE,
     attrs |-> [a \in {"name", "url"} \cup DOMAIN kwargs |->
                   IF a \in DOMAIN kwargs THEN kwargs[a] ELSE None]]

NoProject == [live |-> FALSE, attrs |-> [a \in {"name", "url"} |-> None]]

\* A variant of the match that accepts a version as soon as one supplied
\* parameter agrees.
VersionMatchesAnyMutant(v, kwargs) ==
    \E param \in DOMAIN kwargs : GetAttr(v.attrs, param) = kwargs[param]

\* The inner loop of get_version: v matches when every supplied parameter
\* equals the attribute of that name (a missing attribute reads as None).
VersionMatches(v, kwargs) ==
    \A param \in DOMAIN kwargs : GetAttr(v.attrs, param) = kwargs[param]

RECURSIVE ScanVersions(_, _, _)
ScanVersions(vs, kwargs, i) ==
    IF i > Len(vs) THEN 0
    ELSE IF VersionMatches(vs[i], kwargs) THEN i
    ELSE ScanVersions(vs, kwargs, i + 1)

\* Project.get_version: the index of the first matching version, 0 for None.
GetVersion(vs, kwargs) == ScanVersions(vs, kwargs, 1)

\* Project._get_or_add_version: the versions list after the call, the id of
\* the Version returned and whether a new instance was created.
GetOrAddVersion(vs, kwargs, id) ==
    LET i == GetVersion(vs, kwargs) IN
    IF i = 0
    THEN [versions |-> Append(vs, NewVersion(id, kwargs)), ret |-> id, created |-> TRUE]
    ELSE [versions |-> vs, ret |-> vs[i].id, created |-> FALSE]

\* Whether this call has the operation and arguments of the call before it.
Repeats(op, kwargs) == last.op = op /\ last.kwargs = kwargs

\* Project(**kwargs)
Construct(kwargs) ==
    /\ IF ProjectInitRaises(kwargs)
       THEN /\ UNCHANGED <<proj, versions, nextId>>
            /\ last' = [op |-> "init", kwargs |-> kwargs, err |-> "MissingIdentityAttribute",
                        ret |-> 0, repeat |-> Repeats("init", kwargs)]
       ELSE /\ proj' = ProjectInit(kwargs)
            /\ versions' = <<>>
            /\ nextId' = 0
            /\ last' = [op |-> "init", kwargs |-> kwargs, err |-> None,
                        ret |-> 0, repeat |-> Repeats("init", kwargs)]
    /\ UNCHANGED <<registry, projects, meta, pc, idx, inflight, fetchLog, call>>

\* project.get_version(**kwargs)
CallGetVersion(kwargs) ==
    /\ proj.live
    /\ LET i == GetVersion(versions, kwargs) IN
       last' = [op |-> "get_version", kwargs |-> kwargs, err |-> None,
                ret |-> IF i = 0 THEN 0 ELSE versions[i].id,
                repeat |-> Repeats("get_version", kwargs)]
    /\ UNCHANGED <<proj, versions, nextId>>
    /\ UNCHANGED <<registry, projects, meta, pc, idx, inflight, fetchLog, call>>

\* project._get_or_add_version(**kwargs)
CallGetOrAddVersion(kwargs) ==
    /\ proj.live
    /\ LET r == GetOrAddVersion(versions, kwargs, nextId + 1) IN
       /\ Len(r.versions) <= MaxVersions
       /\ versions' = r.versions
       /\ nextId' = IF r.created THEN nextId + 1 ELSE nextId
       /\ last' = [op |-> "get_or_add_version", kwargs |-> kwargs, err |-> None,
                   ret |-> r.ret, repeat |-> Repeats("get_or_add_version", kwargs)]
    /\ UNCHANGED proj
    /\ UNCHANGED <<registry, projects, meta, pc, idx, inflight, fetchLog, call>>

NoMeta == [f \in {"name", "version", "description", "readme", "author", "email"} |-> None]
NoFetch == [op |-> "none", nocache |-> FALSE, historical |-> "all", err |-> None]

\* Everything outside the Project under use is left as constructed.
IdleDataset ==
    /\ registry = None
    /\ projects = <<>>
    /\ meta = NoMeta
    /\ pc = "idle"
    /\ idx = 0
    /\ inflight = 0
    /\ fetchLog = <<>>
    /\ call = NoFetch

\* No Project has been constructed yet.
InitConstruct ==
    /\ proj = NoProject
    /\ versions = <<>>
    /\ nextId = 0
    /\ last = NoCall
    /\ IdleDataset

NextConstruct == \E kwargs \in ProjectKwargs : Construct(kwargs)

SpecConstruct == InitConstruct /\ [][NextConstruct]_vars

\* A Project as constructed by Project(name='foo'): its versions list is empty.
InitProject ==
    /\ proj = ProjectInit([name |-> "foo"])
    /\ versions = <<>>
    /\ nextId = 0
    /\ last = NoCall
    /\ IdleDataset

NextProject ==
    \/ \E kwargs \in VersionKwargs : CallGetVersion(kwargs)
    \/ \E kwargs \in VersionKwargs : CallGetOrAddVersion(kwargs)

SpecProject == InitProject /\ [][NextProject]_vars

-----------------------------------------------------------------------------
(* Dataset: weblist loading and find_project                               *)

MaxRows == 2

\* Dataset.__init__ accepts no registry or one the api map knows.
Registries == {None, "pypi", "npm"}

\* loaders.weblist.class_map: the registries that have a weblist loader.
WeblistLoaders == {"pypi"}

\* The keys of PypiLoader.weblists.
LoaderWeblists == {"top5kmonth", "top5kyear"}

\* The weblists of the pypi registry: Registry.load_weblist looks the name up
\* in self.weblists and calls its loader and parser; PypiRegistry registers a
\* loader and the parser _parse_hugovk under these names.
RegistryWeblists == {"5kmonth", "5kyear"}

\* The rows a download may return: well-formed rows, a row without its
\* download count and a row without its project name.
Rows ==
    {[project |-> "foo", download_count |-> "100"],
     [project |-> "foo", download_count |-> "150"],
     [project |-> "bar", download_count |-> "100"],
     [project |-> "foo"],
     [download_count |-> "100"]}

RECURSIVE SeqsUpTo(_, _)
SeqsUpTo(S, n) ==
    IF n = 0 THEN {<<>>}
    ELSE LET shorter == SeqsUpTo(S, n - 1) IN
         shorter \cup {Append(q, x) : q \in {r \in shorter : Len(r) = n - 1}, x \in S}

\* ds.types['project'](**kwargs): the registry's project class, which keeps
\* the keyword arguments as attributes.
NewRegistryProject(kwargs) == [live |-> TRUE, attrs |-> kwargs]

\* The identity key of a project of the pypi registry: its package name.
ProjectIdentity(p) == GetAttr(p.attrs, "package_name")

\* PypiLoader._parse_hugovk: the list comprehension builds one project per
\* row; a row without 'project' or 'download_count' raises KeyError before
\* ds.projects is assigned.  Returns the error, the index of the failing row
\* and the value of ds.projects afterwards.
RECURSIVE LoaderParseRows(_, _, _, _)
LoaderParseRows(old, data, i, built) ==
    IF i > Len(data) THEN [err |-> None, failedAt |-> 0, projects |-> built]
    ELSE IF ~({"project", "download_count"} \subseteq DOMAIN data[i])
    THEN [err |-> "KeyError", failedAt |-> i, projects |-> old]
    ELSE LoaderParseRows(old, data, i + 1,
            Append(built, NewRegistryProject([package_name |-> data[i]["project"],
                                              downloads |-> data[i]["download_count"]])))

\* A variant of the parser that appends to ds.projects row by row, so that a
\* failing row leaves the rows before it in place.
RECURSIVE LoaderParseRowsAppendMutant(_, _, _, _)
LoaderParseRowsAppendMutant(old, data, i, built) ==
    IF i > Len(data) THEN [err |-> None, failedAt |-> 0, projects |-> built]
    ELSE IF ~({"project", "download_count"} \subseteq DOMAIN data[i])
    THEN [err |-> "KeyError", failedAt |-> i, projects |-> built]
    ELSE LoaderParseRowsAppendMutant(old, data, i + 1,
            Append(built, NewRegistryProject([package_name |-> data[i]["project"],
                                              downloads |-> data[i]["download_count"]])))

LoaderParseHugovkAppendMutant(old, data) == LoaderParseRowsAppendMutant(old, data, 1, <<>>)

LoaderParseHugovk(old, data) == LoaderParseRows(old, data, 1, <<>>)

\* PypiRegistry._parse_hugovk: one Project(package_name=...) per row, built by
\* Project.__init__; dataset.projects is assigned once every row is built.
RECURSIVE RegistryParseRows(_, _, _, _)
RegistryParseRows(old, data, i, built) ==
    IF i > Len(data) THEN [err |-> None, failedAt |-> 0, projects |-> built]
    ELSE IF "project" \notin DOMAIN data[i]
    THEN [err |-> "KeyError", failedAt |-> i, projects |-> old]
    ELSE LET kwargs == [package_name |-> data[i]["project"]] IN
         IF ProjectInitRaises(kwargs)
         THEN [err |-> "MissingIdentityAttribute", failedAt |-> i, projects |-> old]
         ELSE RegistryParseRows(old, data, i + 1, Append(built, ProjectInit(kwargs)))

RegistryParseHugovk(old, data) == RegistryParseRows(old, data, 1, <<>>)

\* The record of a load call: its error (None on success), the number of rows
\* downloaded and the index of the row the parser failed at (0: none).
LoadCall(op, name, err, nrows, failedAt) ==
    [op |-> op, name |-> name, err |-> err, nrows |-> nrows, failedAt |-> failedAt]

\* The rest of the state, which the dataset operations leave alone.
DatasetFrame == UNCHANGED <<proj, versions, nextId, registry, meta, pc, idx,
                            inflight, fetchLog, call>>

\* PypiLoader.load(ds, name): look the weblist up, download, parse.
\* downloaded: whether the getter returned; data: the rows it returned.
LoaderLoad(old, name, downloaded, data) ==
    IF name \notin LoaderWeblists
    THEN [err |-> "KeyError", failedAt |-> 0, projects |-> old]
    ELSE IF ~downloaded
    THEN [err |-> "DownloadError", failedAt |-> 0, projects |-> old]
    ELSE LoaderParseHugovk(old, data)

\* dataset.load_weblist(name)
LoadWeblist(name, downloaded, data) ==
    /\ LET r == IF ~Truthy(registry)
                THEN [err |-> "RegistryNotSet", failedAt |-> 0, projects |-> projects]
                ELSE IF registry \notin WeblistLoaders
                THEN [err |-> "InvalidWeblist", failedAt |-> 0, projects |-> projects]
                ELSE LoaderLoad(projects, name, downloaded, data)
       IN /\ projects' = r.projects
          /\ last' = LoadCall("load_weblist", name, r.err,
                              IF downloaded THEN Len(data) ELSE 0, r.failedAt)
    /\ DatasetFrame

\* registry.load_weblist(dataset, name): any failure of the lookup or the
\* loader is re-raised as a download error, any failure of the parser as a
\* parse error.
RegistryLoadWeblist(name, downloaded, data) ==
    /\ LET r == IF name \notin RegistryWeblists \/ ~downloaded
                THEN [err |-> "Error downloading weblist", failedAt |-> 0,
                      projects |-> projects]
                ELSE LET parsed == RegistryParseHugovk(projects, data) IN
                     IF parsed.err # None
                     THEN [parsed EXCEPT !.err = "Error parsing weblist data"]
                     ELSE parsed
       IN /\ projects' = r.projects
          /\ last' = LoadCall("registry_load_weblist", name, r.err,
                              IF downloaded THEN Len(data) ELSE 0, r.failedAt)
    /\ DatasetFrame

FindAttrs == {"name", "package_name"}
FindVals == {"foo", "bar"}
FindKwargs == Kwargs(FindAttrs, FindVals)

\* Project.__eq__ after find_project has rebound the other project's uuid
\* functions to the temporary project: equal when every identity attribute
\* of the other project has the same value on both.
ProjectEq(this, other) == ProjectIdentity(this) = ProjectIdentity(other)

RECURSIVE ScanProjects(_, _, _)
ScanProjects(ps, this, i) ==
    IF i > Len(ps) THEN 0
    ELSE IF ProjectEq(this, ps[i]) THEN i
    ELSE ScanProjects(ps, this, i + 1)

\* Dataset.find_project: builds a temporary Project from the keywords (which
\* raises without a name or url keyword), then scans the projects in order.
\* Returns the error and the index of the project found (0 for None).
FindProject(ps, kwargs) ==
    IF ProjectInitRaises(kwargs)
    THEN [err |-> "MissingIdentityAttribute", ret |-> 0]
    ELSE [err |-> None, ret |-> ScanProjects(ps, ProjectInit(kwargs), 1)]

\* dataset.find_project(**kwargs)
CallFindProject(kwargs) ==
    /\ LET r == FindProject(projects, kwargs) IN
       last' = [op |-> "find_project", kwargs |-> kwargs, err |-> r.err, ret |-> r.ret]
    /\ UNCHANGED projects
    /\ DatasetFrame

InitDataset ==
    /\ proj = NoProject
    /\ versions = <<>>
    /\ nextId = 0
    /\ registry \in Registries
    /\ projects = <<>>
    /\ meta = NoMeta
    /\ pc = "idle"
    /\ idx = 0
    /\ inflight = 0
    /\ fetchLog = <<>>
    /\ call = NoFetch
    /\ last = NoCall

NextDataset ==
    \/ \E name \in LoaderWeblists \cup {"bogus"}, downloaded \in BOOLEAN,
          data \in SeqsUpTo(Rows, MaxRows) :
            LoadWeblist(name, downloaded, data)
    \/ \E name \in RegistryWeblists \cup {"bogus"}, downloaded \in BOOLEAN,
          data \in SeqsUpTo(Rows, MaxRows) :
            RegistryLoadWeblist(name, downloaded, data)
    \/ \E kwargs \in FindKwargs : CallFindProject(kwargs)

SpecDataset == InitDataset /\ [][NextDataset]_vars

-----------------------------------------------------------------------------
(* Dataset: set_meta and to_inputset                                       *)

MetaFields == {"name", "version", "description", "readme", "author", "email"}

\* The values a caller may pass for a metadata field: None (not supplied),
\* the empty string and a non-empty string.
MetaVals == {None, "", "a"}

\* The rest of the state, which the metadata operations leave alone.
MetaFrame == UNCHANGED <<proj, versions, nextId, registry, projects, pc, idx,
                         inflight, fetchLog, call>>

\* set_meta raises when no argument is truthy.
SetMetaRaises(args) == ~(\E f \in MetaFields : Truthy(args[f]))

\* set_meta's assignments: self.f = f or self.f, for each field.
SetMetaFields(m, args) ==
    [f \in MetaFields |-> IF Truthy(args[f]) THEN args[f] ELSE m[f]]

\* dataset.set_meta(name, version, description, readme, author, email)
SetMeta(args) ==
    /\ IF SetMetaRaises(args)
       THEN /\ meta' = meta
            /\ last' = [op |-> "set_meta", args |-> args, err |-> "NoMetadataGiven"]
       ELSE /\ meta' = SetMetaFields(meta, args)
            /\ last' = [op |-> "set_meta", args |-> args, err |-> None]
    /\ MetaFrame

\* A variant of the check that looks at the name alone.
ToInputsetRaisesNameOnlyMutant(m) == ~Truthy(m["name"])

\* to_inputset raises unless name and version are both truthy.
ToInputsetRaises(m) == ~(Truthy(m["name"]) /\ Truthy(m["version"]))

\* Project.to_inputset: the project's attributes, one input per project.
ProjectToInputset(p) == <<p.attrs>>

RECURSIVE Inputs(_, _)
Inputs(ps, i) ==
    IF i > Len(ps) THEN <<>> ELSE ProjectToInputset(ps[i]) \o Inputs(ps, i + 1)

\* The dict to_inputset returns: the truthy metadata fields and the inputs.
InputsetDict(m, ps) ==
    [fields |-> [f \in {g \in MetaFields : Truthy(m[g])} |-> m[f]],
     inputs |-> Inputs(ps, 1)]

\* dataset.to_inputset()
ToInputset ==
    /\ IF ToInputsetRaises(meta)
       THEN last' = [op |-> "to_inputset", err |-> "MissingMandatoryMetadata",
                     ret |-> InputsetDict(NoMeta, <<>>)]
       ELSE last' = [op |-> "to_inputset", err |-> None,
                     ret |-> InputsetDict(meta, projects)]
    /\ UNCHANGED meta
    /\ MetaFrame

\* A new Dataset: name, version, description and readme are None; author and
\* email default to the git user's, which may be unset.  The dataset holds
\* one project left by an earlier load.
InitMeta ==
    /\ proj = NoProject
    /\ versions = <<>>
    /\ nextId = 0
    /\ registry = "pypi"
    /\ projects = <<NewRegistryProject([package_name |-> "foo", downloads |-> "100"])>>
    /\ meta \in {m \in [MetaFields -> {None, "a"}] :
                    \A f \in {"name", "version", "description", "readme"} : m[f] = None}
    /\ pc = "idle"
    /\ idx = 0
    /\ inflight = 0
    /\ fetchLog = <<>>
    /\ call = NoFetch
    /\ last = NoCall

NextMeta ==
    \/ \E args \in [MetaFields -> MetaVals] : SetMeta(args)
    \/ ToInputset

SpecMeta == InitMeta /\ [][NextMeta]_vars

-----------------------------------------------------------------------------
(* Dataset: get_projects_meta and get_project_versions                     *)

MaxProjects == 3

FetchNames == {"foo", "bar"}
Historical == {"all", "recent"}

\* The rest of the state, which the fetch loops leave alone.
FetchFrame == UNCHANGED <<proj, versions, nextId, registry, projects, meta, last>>

\* The api method each loop calls.
ApiMethod(op) == IF op = "get_projects_meta" THEN "get_project" ELSE "get_versions"

\* The api call made for the project at position i: the caller's nocache and
\* historical arguments are passed on as they are.
ApiCall(c, i) ==
    [method |-> ApiMethod(c.op), project |-> i, nocache |-> c.nocache,
     historical |-> c.historical]

\* A variant of the loop that catches the exception and fetches the same
\* project again.
OnFetchErrorRetryMutant(c, i) == [pc |-> "loop", idx |-> i, call |-> c]

\* What the loop does when a fetch raises: nothing catches the exception, so
\* the call ends with it.
OnFetchError(c, i) ==
    [pc |-> "idle", idx |-> i, call |-> [c EXCEPT !.err = "RegistryFetchError"]]

\* dataset.get_projects_meta(nocache)
CallGetProjectsMeta(nocache) ==
    /\ pc = "idle"
    /\ call' = [op |-> "get_projects_meta", nocache |-> nocache,
                historical |-> "all", err |-> None]
    /\ fetchLog' = <<>>
    /\ idx' = 1
    /\ pc' = "loop"
    /\ UNCHANGED inflight
    /\ FetchFrame

\* dataset.get_project_versions(historical, nocache)
CallGetProjectVersions(historical, nocache) ==
    /\ pc = "idle"
    /\ call' = [op |-> "get_project_versions", nocache |-> nocache,
                historical |-> historical, err |-> None]
    /\ fetchLog' = <<>>
    /\ idx' = 1
    /\ pc' = "loop"
    /\ UNCHANGED inflight
    /\ FetchFrame

\* for p in self.projects: the loop is over, and the call returns.
LoopEnds ==
    /\ pc = "loop"
    /\ idx > Len(projects)
    /\ pc' = "idle"
    /\ UNCHANGED <<idx, inflight, fetchLog, call>>
    /\ FetchFrame

\* self.api is None for a dataset without a registry: the attribute lookup
\* on it raises before any fetch.
NoApi ==
    /\ pc = "loop"
    /\ idx <= Len(projects)
    /\ ~Truthy(registry)
    /\ pc' = "idle"
    /\ call' = [call EXCEPT !.err = "AttributeError"]
    /\ UNCHANGED <<idx, inflight, fetchLog>>
    /\ FetchFrame

\* self.api.get_project(p, ...) / self.api.get_versions(p, ...) is called.
FetchBegins ==
    /\ pc = "loop"
    /\ idx <= Len(projects)
    /\ Truthy(registry)
    /\ fetchLog' = Append(fetchLog, ApiCall(call, idx))
    /\ inflight' = inflight + 1
    /\ pc' = "fetching"
    /\ UNCHANGED <<idx, call>>
    /\ FetchFrame

\* The api call returns: on to the next project.
FetchReturns ==
    /\ pc = "fetching"
    /\ inflight' = inflight - 1
    /\ idx' = idx + 1
    /\ pc' = "loop"
    /\ UNCHANGED <<fetchLog, call>>
    /\ FetchFrame

\* The api call raises.
FetchRaises ==
    /\ pc = "fetching"
    /\ inflight' = inflight - 1
    /\ LET r == OnFetchError(call, idx) IN
       /\ pc' = r.pc
       /\ idx' = r.idx
       /\ call' = r.call
    /\ UNCHANGED fetchLog
    /\ FetchFrame

InitFetch ==
    /\ proj = NoProject
    /\ versions = <<>>
    /\ nextId = 0
    /\ registry \in {None, "pypi"}
    /\ projects \in SeqsUpTo({NewRegistryProject([package_name |-> n]) : n \in FetchNames},
                             MaxProjects)
    /\ meta = NoMeta
    /\ pc = "idle"
    /\ idx = 0
    /\ inflight = 0
    /\ fetchLog = <<>>
    /\ call = NoFetch
    /\ last = NoCall

NextFetch ==
    \/ \E nocache \in BOOLEAN : CallGetProjectsMeta(nocache)
    \/ \E historical \in Historical, nocache \in BOOLEAN :
          CallGetProjectVersions(historical, nocache)
    \/ LoopEnds
    \/ NoApi
    \/ FetchBegins
    \/ FetchReturns
    \/ FetchRaises

SpecFetch == InitFetch /\ [][NextFetch]_vars

-----------------------------------------------------------------------------
(* Claims about Project                                                    *)

\* C1: no two Versions in the Project's versions list have equal identity
\* (here: no two Versions that carry a version string carry the same one),
\* after any sequence of _get_or_add_version calls.
C1_VersionsUnique ==
    \A i, j \in 1..Len(versions) :
        (i # j /\ VersionIdentity(versions[i]) # None)
            => VersionIdentity(versions[i]) # VersionIdentity(versions[j])

\* C3: a _get_or_add_version call that repeats the call before it (same
\* attributes) returns the same Version instance and leaves the versions
\* list as it was.
C3_GetOrAddIdempotent ==
    [][(/\ last.op = "get_or_add_version"
        /\ last'.op = "get_or_add_version"
        /\ last'.kwargs = last.kwargs)
        => (versions' = versions /\ last'.ret = last.ret)]_vars

\* C3 witness: a repeated call on a list where the instance returned is not
\* the first of the list.
C3_Witness ==
    /\ last.op = "get_or_add_version"
    /\ last.repeat
    /\ Len(versions) = 2
    /\ last.ret = versions[2].id

\* C7: a constructed Project has a non-null name or a non-null url, and the
\* construction fails whenever the keywords give no non-null name or url.
C7_ConstructedHasIdentity ==
    /\ proj.live => (proj.attrs["name"] # None \/ proj.attrs["url"] # None)
    /\ (last.op = "init" /\ GetAttr(last.kwargs, "name") = None
                         /\ GetAttr(last.kwargs, "url") = None)
          => last.err = "MissingIdentityAttribute"

-----------------------------------------------------------------------------
(* Claims about Dataset                                                    *)

LoadOps == {"load_weblist", "registry_load_weblist"}

\* C2: after any sequence of weblist loads no two Projects of the dataset
\* have equal identity (package name).
C2_ProjectsUnique ==
    \A i, j \in 1..Len(projects) :
        i # j => ProjectIdentity(projects[i]) # ProjectIdentity(projects[j])

\* C4: every Project that was in the dataset before a successful weblist
\* load (of at least one row) is still in it after the load.
C4_LoadKeepsProjects ==
    [][(last'.op \in LoadOps /\ last'.err = None /\ last'.nrows > 0)
        => \A i \in 1..Len(projects) : \E j \in 1..Len(projects') :
              ProjectIdentity(projects'[j]) = ProjectIdentity(projects[i])]_vars

\* The first project, in insertion order, whose attributes equal every
\* supplied attribute; 0 when there is none.
FirstWithAttributes(ps, kwargs) ==
    LET S == {i \in 1..Len(ps) :
                 \A a \in DOMAIN kwargs : GetAttr(ps[i].attrs, a) = kwargs[a]}
    IN IF S = {} THEN 0 ELSE CHOOSE i \in S : \A k \in S : i <= k

\* C6: find_project, given the identity attribute of the registry's projects
\* (the package name), never raises: it returns the first project having
\* the supplied attributes, or None.
C6_FindProjectNeverRaises ==
    (last.op = "find_project" /\ DOMAIN last.kwargs = {"package_name"})
        => /\ last.err = None
           /\ last.ret = FirstWithAttributes(projects, last.kwargs)

\* C10: a weblist load that raises leaves Dataset.projects exactly as it was.
C10_FailedLoadKeepsProjects ==
    [][(last'.op \in LoadOps /\ last'.err # None) => projects' = projects]_vars

\* C10 witness: a load into a non-empty dataset failed at its second row,
\* after the first row had been parsed.
C10_Witness ==
    /\ last.op = "load_weblist"
    /\ last.err = "KeyError"
    /\ last.failedAt = 2
    /\ Len(projects) > 0

\* C5: to_inputset fails with the missing-metadata error exactly when name or
\* version is None, whatever the other fields hold, and changes nothing.
C5_ToInputsetFailsIffUnset ==
    [][last'.op = "to_inputset"
        => /\ last'.err = "MissingMandatoryMetadata"
                <=> (meta["name"] = None \/ meta["version"] = None)
           /\ last'.err \in {None, "MissingMandatoryMetadata"}
           /\ meta' = meta
           /\ projects' = projects]_vars

\* C5 witness: to_inputset failed with only version unset, every other field
\* and the projects present.
C5_Witness ==
    /\ last.op = "to_inputset"
    /\ last.err = "MissingMandatoryMetadata"
    /\ meta["version"] = None
    /\ \A f \in MetaFields \ {"version"} : meta[f] = "a"
    /\ Len(projects) > 0

\* C8: set_meta overrides a field exactly when the value supplied for it is
\* not None and leaves the others as they were; it raises, changing nothing,
\* exactly when no value is supplied.
C8_SetMetaOverridesNonNone ==
    [][last'.op = "set_meta"
        => /\ \A f \in MetaFields :
                 meta'[f] = IF last'.args[f] # None THEN last'.args[f] ELSE meta[f]
           /\ (last'.err # None) <=> (\A f \in MetaFields : last'.args[f] = None)
           /\ projects' = projects /\ registry' = registry]_vars

\* The calls a fetch loop has to have made when it has fetched n projects:
\* one per project, in insertion order, with the caller's arguments.
ExpectedLog(n) == [i \in 1..n |-> ApiCall(call, i)]

\* C9: a fetch loop calls the api at most once per project, in insertion
\* order, one call at a time, with the caller's nocache and historical
\* arguments; when a fetch fails the call ends with the error, without a
\* retry and without fetching any later project.
C9_FetchesSequentialNoRetry ==
    /\ inflight \in {0, 1}
    /\ inflight = 1 <=> pc = "fetching"
    /\ Len(fetchLog) <= Len(projects)
    /\ fetchLog = ExpectedLog(Len(fetchLog))
    /\ call.err = "RegistryFetchError" => (pc = "idle" /\ Len(fetchLog) = idx)
    /\ (pc = "idle" /\ call.op # "none" /\ call.err = None)
          => Len(fetchLog) = Len(projects)

\* C9 witness: a call with nocache set failed at its second project of three.
C9_Witness ==
    /\ pc = "idle"
    /\ call.err = "RegistryFetchError"
    /\ call.nocache
    /\ Len(fetchLog) = 2
    /\ Len(projects) = 3

====
